---- MODULE Spec2Model ----
(***************************************************************************)
(* The two batch jobs of omni-packages/scripts:                            *)
(*   validate.py      the Validator  (validate_package,                    *)
(*                    validate_all_packages, main)                         *)
(*   generate-api.py  the Loader and the Aggregator (load_all_packages,    *)
(*                    the five generate_* views, main)                     *)
(* Each job is a sequential program; one specification per job or view.    *)
(***************************************************************************)
EXTENDS Integers, Sequences, FiniteSets, TLC

VARIABLES
    files,         \* validate.py: what packages_dir.rglob("*.json") yields, in order
    total_files,   \* validate_all_packages: files processed so far
    total_errors,  \* validate_all_packages: error strings counted so far
    report,        \* console: one entry per file whose validate_package returned
    summary,       \* console: whether the "Validation Results" block was printed
    exit_code,     \* process exit status (Running until the process ends)
    pc,            \* position of the running job
    disk,          \* generate-api.py: the files below the working directory, in listing order
    packages,      \* load_all_packages: the list being built; the views' input
    scanned,       \* load_all_packages: files of the rglob already visited
    endpoints,     \* main: file name -> generated document
    clock,         \* what datetime.now(timezone.utc) reads
    runs,          \* finished runs of generate-api.py
    before         \* the disk as the current run of generate-api.py found it

validator_vars == <<files, total_files, total_errors, report, summary, exit_code>>
aggregator_vars == <<disk, packages, scanned, endpoints, clock, runs, before>>
vars == <<validator_vars, aggregator_vars, pc>>

Running == -1

(***************************************************************************)
(* Bounds of the model.                                                    *)
(***************************************************************************)
MaxFiles == 2

(***************************************************************************)
(* Small helpers.                                                          *)
(***************************************************************************)
SeqsUpTo(S, n) == UNION {[1..k -> S] : k \in 0..n}

RECURSIVE SumSet(_, _)
\* sum of w[x] over the finite set S
SumSet(S, w) ==
    IF S = {} THEN 0
    ELSE LET x == CHOOSE y \in S : TRUE IN w[x] + SumSet(S \ {x}, w)

(***************************************************************************)
(* validate.py: file names and JSON documents.                             *)
(* Strings the code compares character by character (package name, file    *)
(* base name) are sequences of one-character strings.                      *)
(***************************************************************************)
DotJson == <<".", "j", "s", "o", "n">>

\* the characters of the class [a-z0-9-_] that the model's strings use
PatternChars == {"a", "b", "0", "-", "_"}

Stems == {<<"a">>, <<"A">>}
\* rglob("*.json") yields only base names ending in ".json"
BaseNames == {s \o DotJson : s \in Stems}

NameValues == {<<"a">>, <<"A">>}

OtherRequired == {"display_name", "category", "description"}
Required == {"name"} \cup OtherRequired \cup {"cross_platform"}
KnownPlatforms == {"linux", "macos", "windows"}

Platforms == {"linux", "bsd"}
Managers == {"apt", "snap"}

\* a platform's value: an object keyed by manager name, or a JSON number
PlatformValues ==
    {[kind |-> "object", managers |-> M] : M \in SUBSET Managers}
        \cup {[kind |-> "number", managers |-> {}]}

NoCrossPlatform == [kind |-> "absent", platforms |-> <<>>]
ArrayCrossPlatform == [kind |-> "array", platforms |-> <<>>]

ObjectCrossPlatforms(PV) ==
    {[kind |-> "object", platforms |-> f] :
        f \in UNION {[P -> PV] : P \in SUBSET Platforms}}

\* JSON objects: keys is the set of top-level keys that matter to the code
ObjectDocs(fieldsets, cps) ==
    {[kind |-> "object", keys |-> ks \cup {"name"}, name |-> n, cross_platform |-> NoCrossPlatform] :
        ks \in fieldsets, n \in NameValues}
    \cup {[kind |-> "object", keys |-> ks, name |-> <<>>, cross_platform |-> NoCrossPlatform] :
        ks \in fieldsets}
    \cup {[kind |-> "object", keys |-> ks \cup {"name", "cross_platform"}, name |-> n, cross_platform |-> c] :
        ks \in fieldsets, n \in NameValues, c \in cps}
    \cup {[kind |-> "object", keys |-> ks \cup {"cross_platform"}, name |-> <<>>, cross_platform |-> c] :
        ks \in fieldsets, c \in cps}

\* what is not a JSON object: a file that cannot be opened, text that is not
\* JSON, a number, an array (keys: the strings it holds)
OtherDocs ==
    {[kind |-> k, keys |-> {}, name |-> <<>>, cross_platform |-> NoCrossPlatform] :
        k \in {"unreadable", "invalid_json", "number", "array"}}
    \cup {[kind |-> "array", keys |-> {"name"}, name |-> <<>>, cross_platform |-> NoCrossPlatform]}

FieldSets == {OtherRequired, {"display_name", "category"}, {"display_name"}}

\* every document shape, for a run over one file
Docs == OtherDocs
    \cup ObjectDocs(FieldSets, {ArrayCrossPlatform} \cup ObjectCrossPlatforms(PlatformValues))

\* fewer shapes, for a run over several files
RunPlatformValues ==
    {[kind |-> "object", managers |-> Managers], [kind |-> "number", managers |-> {}]}
RunCrossPlatforms ==
    {ArrayCrossPlatform}
        \cup {c \in ObjectCrossPlatforms(RunPlatformValues) : Cardinality(DOMAIN c.platforms) <= 1}
RunDocs == OtherDocs
    \cup {d \in ObjectDocs({OtherRequired}, RunCrossPlatforms) : d.name # <<"A">>}

PackageFiles(docs) == {[name |-> b, doc |-> d] : b \in BaseNames, d \in docs}

(***************************************************************************)
(* validate.py: PACKAGE_SCHEMA and validate_package.                       *)
(***************************************************************************)
\* "pattern": "^[a-z0-9-_]+$"
MatchesNamePattern(n) == Len(n) >= 1 /\ \A i \in DOMAIN n : n[i] \in PatternChars

\* every violation jsonschema's iter_errors would list for the document
SchemaViolations(d) ==
    IF d.kind # "object" THEN {<<"type", "object">>}
    ELSE {<<"required", r>> : r \in Required \ d.keys}
        \cup (IF "name" \in d.keys /\ ~MatchesNamePattern(d.name)
              THEN {<<"pattern", "name">>} ELSE {})
        \cup (IF "cross_platform" \in d.keys /\ d.cross_platform.kind # "object"
              THEN {<<"type", "cross_platform">>} ELSE {})
        \cup (IF "cross_platform" \in d.keys /\ d.cross_platform.kind = "object"
              THEN {<<"type", p>> : p \in {q \in DOMAIN d.cross_platform.platforms \cap KnownPlatforms :
                                              d.cross_platform.platforms[q].kind # "object"}}
              ELSE {})

\* jsonschema.validate raises the best match alone; the handler appends one string
SchemaErrors(d) ==
    IF SchemaViolations(d) # {} THEN <<"Schema validation error">> ELSE <<>>

expected_filename(d) == d.name \o DotJson

FilenameErrors(f) ==
    IF f.name # expected_filename(f.doc) THEN <<"Filename doesn't match package name">> ELSE <<>>

MinManagers == 2

\* a variant that counts the platforms, not their managers
total_managers_per_platform(platforms) == Cardinality(DOMAIN platforms)

\* the for loop over platforms.items(): total_managers += len(managers)
total_managers(platforms) ==
    SumSet(DOMAIN platforms, [p \in DOMAIN platforms |-> Cardinality(platforms[p].managers)])

ManagerErrors(platforms) ==
    IF total_managers(platforms) < MinManagers
    THEN <<"Package should support at least 2 package managers">> ELSE <<>>

Returns(errors) == [raised |-> FALSE, errors |-> errors]
Raises == [raised |-> TRUE, errors |-> <<>>]

\* the outcome of validate_package(file_path): the list it returns, or an
\* exception no handler of the function catches
validate_package(f) ==
    LET d == f.doc IN
    IF d.kind = "unreadable" THEN Returns(<<"Error reading file">>)
    ELSE IF d.kind = "invalid_json" THEN Returns(<<"Invalid JSON">>)
    ELSE IF d.kind = "number" THEN Raises                \* 'name' in data: TypeError
    ELSE IF "name" \in d.keys /\ d.kind = "array" THEN Raises   \* data['name'] on a list: TypeError
    ELSE
        LET errors == SchemaErrors(d) \o (IF "name" \in d.keys THEN FilenameErrors(f) ELSE <<>>) IN
        IF "cross_platform" \notin d.keys THEN Returns(errors)
        ELSE IF d.cross_platform.kind # "object" THEN Raises     \* platforms.items(): AttributeError
        ELSE IF \E p \in DOMAIN d.cross_platform.platforms :
                    d.cross_platform.platforms[p].kind # "object" THEN Raises  \* len(managers): TypeError
        ELSE Returns(errors \o ManagerErrors(d.cross_platform.platforms))

(***************************************************************************)
(* validate.py: validate_all_packages and main.                            *)
(***************************************************************************)
\* the other job is not running
AggregatorIdle ==
    /\ disk = <<>>
    /\ packages = <<>>
    /\ scanned = 0
    /\ endpoints = <<>>
    /\ clock = 0
    /\ runs = 0
    /\ before = <<>>

InitValidator ==
    /\ files \in {<<f>> : f \in PackageFiles(Docs)} \cup SeqsUpTo(PackageFiles(RunDocs), MaxFiles)
    /\ total_files = 0
    /\ total_errors = 0
    /\ report = <<>>
    /\ summary = FALSE
    /\ pc = "scan"
    /\ exit_code = Running
    /\ AggregatorIdle

\* one iteration of the for loop over rglob
ValidateFile ==
    /\ pc = "scan"
    /\ total_files < Len(files)
    /\ LET f == files[total_files + 1]
           r == validate_package(f)
       IN /\ total_files' = total_files + 1
          /\ IF r.raised
             THEN /\ pc' = "raised"
                  /\ UNCHANGED <<total_errors, report>>
             ELSE /\ total_errors' = total_errors + Len(r.errors)
                  /\ report' = Append(report, [file |-> total_files + 1,
                                               passed |-> (r.errors = <<>>),
                                               errors |-> r.errors])
                  /\ pc' = "scan"
    /\ UNCHANGED <<files, summary, exit_code, aggregator_vars>>

\* after the loop: the results block and the boolean handed to main
Summarize ==
    /\ pc = "scan"
    /\ total_files = Len(files)
    /\ summary' = TRUE
    /\ pc' = IF total_errors = 0 THEN "returned_true" ELSE "returned_false"
    /\ UNCHANGED <<files, total_files, total_errors, report, exit_code, aggregator_vars>>

\* main: sys.exit(0) or sys.exit(1)
Exit ==
    /\ pc \in {"returned_true", "returned_false"}
    /\ exit_code' = IF pc = "returned_true" THEN 0 ELSE 1
    /\ pc' = "exited"
    /\ UNCHANGED <<files, total_files, total_errors, report, summary, aggregator_vars>>

\* an exception leaves validate_all_packages and main: traceback, status 1
Traceback ==
    /\ pc = "raised"
    /\ exit_code' = 1
    /\ pc' = "exited"
    /\ UNCHANGED <<files, total_files, total_errors, report, summary, aggregator_vars>>

NextValidator == ValidateFile \/ Summarize \/ Exit \/ Traceback

SpecValidator == InitValidator /\ [][NextValidator]_vars

(***************************************************************************)
(* generate-api.py: package records.  A JSON object is a function from     *)
(* its keys: 'k' in d is k \in DOMAIN d, and {} is the empty function.     *)
(***************************************************************************)
Has(d, k) == k \in DOMAIN d
\* d.get(k, default)
Get(d, k, default) == IF Has(d, k) THEN d[k] ELSE default
EmptyObject == <<>>

MaxRecords == 2
MaxRank == 2

PackageNames == {"a", "b"}
Categories == {"dev", "web"}

\* the fields every package record carries (section 3 of the data model)
Base(n, c) == [name |-> n, display_name |-> n, category |-> c, description |-> "text"]

(***************************************************************************)
(* generate-api.py: generate_popular_packages.                             *)
(***************************************************************************)
Popularities == {EmptyObject} \cup {[rank |-> r] : r \in 1..MaxRank}

PopularRecords ==
    {Base(n, c) @@ o :
        n \in PackageNames, c \in Categories,
        o \in {EmptyObject, [cross_platform |-> [linux |-> [apt |-> <<"x">>]]]}
                \cup {[popularity |-> p] : p \in Popularities}
                \cup {[popularity |-> [rank |-> 1], cross_platform |-> EmptyObject]}}

HasRank(p) == Has(p, "popularity") /\ Has(p.popularity, "rank")

\* list.insert keeping equal keys in arrival order: x goes after every
\* element whose rank is not greater
RECURSIVE InsertByRank(_, _)
InsertByRank(s, x) ==
    IF s = <<>> THEN <<x>>
    ELSE IF x.popularity.rank < Head(s).popularity.rank THEN <<x>> \o s
    ELSE <<Head(s)>> \o InsertByRank(Tail(s), x)

RECURSIVE InsertBeforeEqual(_, _)
InsertBeforeEqual(s, x) ==
    IF s = <<>> THEN <<x>>
    ELSE IF x.popularity.rank <= Head(s).popularity.rank THEN <<x>> \o s
    ELSE <<Head(s)>> \o InsertBeforeEqual(Tail(s), x)

RECURSIVE sorted_unstable(_)
\* a variant that sorts by rank and puts equal ranks in reverse arrival order
sorted_unstable(s) ==
    IF s = <<>> THEN <<>>
    ELSE InsertBeforeEqual(sorted_unstable(SubSeq(s, 1, Len(s) - 1)), s[Len(s)])

RECURSIVE sorted(_)
\* sorted(..., key=lambda x: x['popularity']['rank']): ascending and stable
sorted(s) ==
    IF s = <<>> THEN <<>>
    ELSE InsertByRank(sorted(SubSeq(s, 1, Len(s) - 1)), s[Len(s)])

\* bool(v) of a JSON object or array
Truthy(v) == v # <<>>

pkg_info(pkg) ==
    [rank |-> pkg.popularity.rank,
     name |-> pkg.name,
     display_name |-> pkg.display_name,
     category |-> pkg.category,
     downloads_per_month |-> Get(pkg.popularity, "downloads_per_month", 0),
     search_frequency |-> Get(pkg.popularity, "search_frequency", 0),
     cross_platform |-> (Has(pkg, "cross_platform") /\ Truthy(pkg.cross_platform))]

Names(s) == [i \in DOMAIN s |-> s[i].name]

generate_popular_packages(pkgs, now) ==
    LET popular == sorted(SelectSeq(pkgs, HasRank))
        popular_packages == [i \in DOMAIN popular |-> pkg_info(popular[i])]
        categories ==
            [c \in {popular[i].category : i \in DOMAIN popular} |->
                Names(SelectSeq(popular, LAMBDA q : q.category = c))]
    IN [version |-> "1.0",
        last_updated |-> now,
        total_packages |-> Len(popular_packages),
        popular_packages |-> popular_packages,
        categories |-> categories]

ValidatorIdle ==
    /\ files = <<>>
    /\ total_files = 0
    /\ total_errors = 0
    /\ report = <<>>
    /\ summary = FALSE
    /\ exit_code = Running

\* a view called on a record list
InitView(records) ==
    /\ ValidatorIdle
    /\ packages \in SeqsUpTo(records, MaxRecords)
    /\ pc = "call"
    /\ disk = <<>>
    /\ scanned = 0
    /\ endpoints = <<>>
    /\ clock = 0
    /\ runs = 0
    /\ before = <<>>

CallView(file, doc) ==
    /\ pc = "call"
    /\ endpoints' = (file :> doc)
    /\ pc' = "return"
    /\ UNCHANGED <<validator_vars, disk, packages, scanned, clock, runs, before>>

InitPopular == InitView(PopularRecords)
CallPopular == CallView("popular.json", generate_popular_packages(packages, clock))
SpecPopular == InitPopular /\ [][CallPopular]_vars

(***************************************************************************)
(* generate-api.py: generate_cross_platform_mappings.                      *)
(***************************************************************************)
ManagerNames == {"x", "y"}
NameLists == {<<"x">>, <<"y", "x">>}

\* manager -> list of manager-specific names
ManagerMaps ==
    {EmptyObject, [snap |-> <<"x">>]} \cup {[apt |-> l] : l \in NameLists}

\* platform -> manager -> list of manager-specific names
CrossPlatforms == UNION {[P -> ManagerMaps] : P \in SUBSET Platforms}

CrossRecords ==
    {Base(n, "dev") : n \in PackageNames}
        \cup {Base(n, "dev") @@ [cross_platform |-> c] : n \in PackageNames, c \in CrossPlatforms}

\* d[k] = v on a dict
Put(d, k, v) == [x \in DOMAIN d \cup {k} |-> IF x = k THEN v ELSE d[x]]

RECURSIVE AssignNamesOnce(_, _, _)
\* a variant that keeps the first owner of a name
AssignNamesOnce(owners, package_names, name) ==
    IF package_names = <<>> THEN owners
    ELSE AssignNamesOnce(IF Has(owners, Head(package_names)) THEN owners
                         ELSE Put(owners, Head(package_names), name),
                         Tail(package_names), name)

RECURSIVE AssignNames(_, _, _)
\* for package_name in package_names: reverse_mappings[platform][manager][package_name] = name
AssignNames(owners, package_names, name) ==
    IF package_names = <<>> THEN owners
    ELSE AssignNames(Put(owners, Head(package_names), name), Tail(package_names), name)

RECURSIVE AddManagers(_, _, _, _)
\* for manager, package_names in managers.items(), todo the managers not yet
\* visited (no key is visited twice, so the order does not show)
AddManagers(by_manager, managers, todo, name) ==
    IF todo = {} THEN by_manager
    ELSE LET m == CHOOSE x \in todo : TRUE
             owners == Get(by_manager, m, EmptyObject)
         IN AddManagers(Put(by_manager, m, AssignNames(owners, managers[m], name)),
                        managers, todo \ {m}, name)

RECURSIVE AddPlatforms(_, _, _, _)
\* for platform, managers in cross_platform.items()
AddPlatforms(reverse, cross_platform, todo, name) ==
    IF todo = {} THEN reverse
    ELSE LET p == CHOOSE x \in todo : TRUE
             by_manager == Get(reverse, p, EmptyObject)
             managers == cross_platform[p]
         IN AddPlatforms(Put(reverse, p, AddManagers(by_manager, managers, DOMAIN managers, name)),
                         cross_platform, todo \ {p}, name)

InitialReverse == [p \in KnownPlatforms |-> EmptyObject]

RECURSIVE MapPackages(_, _)
\* the for loop over packages; acc holds mappings and reverse_mappings
MapPackages(acc, pkgs) ==
    IF pkgs = <<>> THEN acc
    ELSE LET pkg == Head(pkgs) IN
         IF ~Has(pkg, "cross_platform") THEN MapPackages(acc, Tail(pkgs))
         ELSE MapPackages(
                [mappings |-> Put(acc.mappings, pkg.name, pkg.cross_platform),
                 reverse_mappings |-> AddPlatforms(acc.reverse_mappings, pkg.cross_platform,
                                                   DOMAIN pkg.cross_platform, pkg.name)],
                Tail(pkgs))

generate_cross_platform_mappings(pkgs, now) ==
    LET acc == MapPackages([mappings |-> EmptyObject, reverse_mappings |-> InitialReverse], pkgs)
    IN [version |-> "1.0",
        last_updated |-> now,
        mappings |-> acc.mappings,
        reverse_mappings |-> acc.reverse_mappings]

InitCrossPlatform == InitView(CrossRecords)
CallCrossPlatform ==
    CallView("cross-platform.json", generate_cross_platform_mappings(packages, clock))
SpecCrossPlatform == InitCrossPlatform /\ [][CallCrossPlatform]_vars

(***************************************************************************)
(* generate-api.py: generate_security_data.  Scores are in tenths.         *)
(***************************************************************************)
ExcellentScore == 90
GoodScore == 80
FairScore == 60

Scores == {59, 60, 79, 80, 89, 90}
VulnerabilityLists == {<<>>, <<"CVE-1">>}

Securities ==
    {EmptyObject}
        \cup {[score |-> x] : x \in Scores}
        \cup {[vulnerabilities |-> v] : v \in VulnerabilityLists}
        \cup {[score |-> x, vulnerabilities |-> v] : x \in Scores, v \in VulnerabilityLists}

SecurityRecords ==
    {Base(n, "dev") : n \in PackageNames}
        \cup {Base(n, "dev") @@ [security |-> x] : n \in PackageNames, x \in Securities}

SecurityCategories == {"excellent", "good", "fair", "poor"}

\* a variant with strict comparisons
security_category_strict(score) ==
    IF score > ExcellentScore THEN "excellent"
    ELSE IF score > GoodScore THEN "good"
    ELSE IF score > FairScore THEN "fair"
    ELSE "poor"

\* the if / elif chain over the score
security_category(score) ==
    IF score >= ExcellentScore THEN "excellent"
    ELSE IF score >= GoodScore THEN "good"
    ELSE IF score >= FairScore THEN "fair"
    ELSE "poor"

score_of(pkg) == Get(pkg.security, "score", 0)

RECURSIVE Alerts(_)
\* vulnerability_alerts.extend(...) for every non-empty list
Alerts(pkgs) ==
    IF pkgs = <<>> THEN <<>>
    ELSE LET security == Head(pkgs).security
             v == Get(security, "vulnerabilities", <<>>)
         IN (IF Truthy(v) /\ Len(v) > 0 THEN v ELSE <<>>) \o Alerts(Tail(pkgs))

RECURSIVE Scores_by_name(_, _)
Scores_by_name(acc, pkgs) ==
    IF pkgs = <<>> THEN acc
    ELSE Scores_by_name(Put(acc, Head(pkgs).name, Head(pkgs).security), Tail(pkgs))

generate_security_data(pkgs, now) ==
    LET rated == SelectSeq(pkgs, LAMBDA q : Has(q, "security"))
    IN [version |-> "1.0",
        last_updated |-> now,
        security_scores |-> Scores_by_name(EmptyObject, rated),
        security_categories |->
            [c \in SecurityCategories |->
                Names(SelectSeq(rated, LAMBDA q : security_category(score_of(q)) = c))],
        vulnerability_alerts |-> Alerts(rated),
        security_guidelines |->
            [minimum_score |-> 70, recommended_score |-> 85, update_frequency |-> "daily"]]

InitSecurity == InitView(SecurityRecords)
CallSecurity == CallView("security.json", generate_security_data(packages, clock))
SpecSecurity == InitSecurity /\ [][CallSecurity]_vars

(***************************************************************************)
(* generate-api.py: generate_categories and generate_all_packages.         *)
(***************************************************************************)
category_of(pkg) == Get(pkg, "category", "other")

generate_categories(pkgs, now) ==
    LET categories ==
            [c \in {category_of(pkgs[i]) : i \in DOMAIN pkgs} |->
                LET members == SelectSeq(pkgs, LAMBDA q : category_of(q) = c)
                IN [i \in DOMAIN members |->
                        [name |-> members[i].name,
                         display_name |-> members[i].display_name,
                         description |-> members[i].description]]]
    IN [version |-> "1.0",
        last_updated |-> now,
        categories |-> categories,
        total_categories |-> Cardinality(DOMAIN categories),
        total_packages |-> Len(pkgs)]

generate_all_packages(pkgs, now) ==
    [version |-> "1.0",
     last_updated |-> now,
     total_packages |-> Len(pkgs),
     packages |-> pkgs]

(***************************************************************************)
(* generate-api.py: the files, load_all_packages and main.                 *)
(* A path is its directory (a sequence of components), the stem and the    *)
(* extension of its base name.                                             *)
(***************************************************************************)
MaxInputs == 2
MaxClock == 1
MaxRuns == 2

Path(dir, stem, ext) == [dir |-> dir, stem |-> stem, ext |-> ext]

PackagesDir == <<"packages">>
ApiDir == <<"api", "v1", "packages">>

\* where package files (and one file that is no package file) may lie
InputPaths ==
    {Path(PackagesDir, "a", "json"),
     Path(PackagesDir \o <<"dev">>, "b", "json"),
     Path(PackagesDir, "README", "md")}

SampleRecords ==
    {Base("a", "dev") @@ [popularity |-> [rank |-> 2], security |-> [score |-> 90]],
     Base("b", "web") @@ [popularity |-> [rank |-> 1],
                          cross_platform |-> [linux |-> [apt |-> <<"x">>]]]}

\* what open() and json.load() make of a file
Contents ==
    {[kind |-> "unreadable", data |-> EmptyObject], [kind |-> "corrupt", data |-> EmptyObject]}
        \cup {[kind |-> "json", data |-> r] : r \in SampleRecords}

Entries == {[path |-> q, content |-> c] : q \in InputPaths, c \in Contents}

IsPrefix(s, t) == Len(s) <= Len(t) /\ SubSeq(t, 1, Len(s)) = s

\* Path(root).rglob("*.json"): the files at any depth below root whose base
\* name ends in ".json", in listing order
rglob(d, root) ==
    SelectSeq(d, LAMBDA e : IsPrefix(root, e.path.dir) /\ e.path.ext = "json")

\* a variant that appends before json.load has succeeded
load_file_early_append(loaded, entry) ==
    IF entry.content.kind = "unreadable" THEN loaded ELSE Append(loaded, entry.content.data)

\* the try / except around open and json.load, for one file
load_file(loaded, entry) ==
    IF entry.content.kind = "json" THEN Append(loaded, entry.content.data) ELSE loaded

\* open(output_path, 'w') and json.dump: the file is created or overwritten
write_file(d, path, data) ==
    LET new == [path |-> path, content |-> [kind |-> "json", data |-> data]] IN
    IF \E i \in DOMAIN d : d[i].path = path
    THEN [i \in DOMAIN d |-> IF d[i].path = path THEN new ELSE d[i]]
    ELSE Append(d, new)

EndpointOrder ==
    <<"popular.json", "cross-platform.json", "security.json", "categories.json", "all.json">>

\* api_dir / filename
output_path(filename) ==
    Path(ApiDir,
         CASE filename = "popular.json" -> "popular"
           [] filename = "cross-platform.json" -> "cross-platform"
           [] filename = "security.json" -> "security"
           [] filename = "categories.json" -> "categories"
           [] filename = "all.json" -> "all",
         "json")

RECURSIVE write_endpoints(_, _, _)
\* for filename, data in endpoints.items()
write_endpoints(d, docs, names) ==
    IF names = <<>> THEN d
    ELSE write_endpoints(write_file(d, output_path(Head(names)), docs[Head(names)]),
                         docs, Tail(names))

\* a variant that keeps the list of the run before
stale_list(stale) == stale

\* packages = [] at the head of load_all_packages
fresh_list(stale) == <<>>

InitAggregator ==
    /\ ValidatorIdle
    /\ disk \in {d \in SeqsUpTo(Entries, MaxInputs) :
                    \A i, j \in DOMAIN d : i # j => d[i].path # d[j].path}
    /\ packages = <<>>
    /\ scanned = 0
    /\ endpoints = <<>>
    /\ clock = 0
    /\ runs = 0
    /\ before = <<>>
    /\ pc = "start"

\* main up to the first file of the scan
StartMain ==
    /\ pc = "start"
    /\ runs < MaxRuns
    /\ before' = disk
    /\ packages' = fresh_list(packages)
    /\ scanned' = 0
    /\ endpoints' = <<>>
    /\ pc' = "load"
    /\ UNCHANGED <<validator_vars, disk, clock, runs>>

\* one iteration of the loop of load_all_packages
LoadFile ==
    /\ pc = "load"
    /\ scanned < Len(rglob(disk, PackagesDir))
    /\ packages' = load_file(packages, rglob(disk, PackagesDir)[scanned + 1])
    /\ scanned' = scanned + 1
    /\ UNCHANGED <<validator_vars, disk, endpoints, clock, runs, before, pc>>

\* load_all_packages returns; api_dir.mkdir
Loaded ==
    /\ pc = "load"
    /\ scanned = Len(rglob(disk, PackagesDir))
    /\ pc' = "popular.json"
    /\ UNCHANGED <<validator_vars, aggregator_vars>>

Generate(file, doc, next) ==
    /\ pc = file
    /\ endpoints' = endpoints @@ (file :> doc)
    /\ pc' = next
    /\ UNCHANGED <<validator_vars, disk, packages, scanned, clock, runs, before>>

GeneratePopular ==
    Generate("popular.json", generate_popular_packages(packages, clock), "cross-platform.json")
GenerateCrossPlatform ==
    Generate("cross-platform.json", generate_cross_platform_mappings(packages, clock), "security.json")
GenerateSecurity ==
    Generate("security.json", generate_security_data(packages, clock), "categories.json")
GenerateCategories ==
    Generate("categories.json", generate_categories(packages, clock), "all.json")
GenerateAll ==
    Generate("all.json", generate_all_packages(packages, clock), "write")

\* the loop that writes the five files; the process ends
WriteEndpoints ==
    /\ pc = "write"
    /\ disk' = write_endpoints(disk, endpoints, EndpointOrder)
    /\ runs' = runs + 1
    /\ pc' = "done"
    /\ UNCHANGED <<validator_vars, packages, scanned, endpoints, clock, before>>

\* the job is started again on the directory as the last run left it
Rerun ==
    /\ pc = "done"
    /\ runs < MaxRuns
    /\ pc' = "start"
    /\ UNCHANGED <<validator_vars, aggregator_vars>>

\* time passes
Tick ==
    /\ clock < MaxClock
    /\ clock' = clock + 1
    /\ UNCHANGED <<validator_vars, disk, packages, scanned, endpoints, runs, before, pc>>

NextAggregator ==
    \/ StartMain \/ LoadFile \/ Loaded
    \/ GeneratePopular \/ GenerateCrossPlatform \/ GenerateSecurity
    \/ GenerateCategories \/ GenerateAll
    \/ WriteEndpoints \/ Rerun \/ Tick

SpecAggregator == InitAggregator /\ [][NextAggregator]_vars

(***************************************************************************)
(* Properties of validate.py.                                              *)
(***************************************************************************)
RECURSIVE SumSeq(_)
SumSeq(s) == IF s = <<>> THEN 0 ELSE Head(s) + SumSeq(Tail(s))

\* how often x occurs in the sequence s
Count(s, x) == Cardinality({i \in DOMAIN s : s[i] = x})

Exited == pc = "exited"
DocOf(entry) == files[entry.file].doc
Parsed(d) == d.kind \notin {"unreadable", "invalid_json"}
ReturnedErrors == SumSeq([i \in DOMAIN report |-> Len(report[i].errors)])

\* C1: the run exits with code 0 if and only if the error strings that
\* validate_package returned over all files number zero, and with code 1
\* otherwise.
C1_ExitZeroIffNoErrors ==
    Exited => /\ exit_code \in {0, 1}
              /\ exit_code = 0 <=> ReturnedErrors = 0

\* C2: whatever any one file holds, every discovered file is processed and
\* gets its pass/fail line, and the run reaches the summary.
C2_EveryFileReported ==
    Exited => /\ summary
              /\ total_files = Len(files)
              /\ \A i \in DOMAIN files : \E j \in DOMAIN report : report[j].file = i

\* C3: a parsed document with k schema violations gets k schema-validation
\* error strings.
C3_OneErrorPerViolation ==
    \A j \in DOMAIN report :
        Parsed(DocOf(report[j])) =>
            Count(report[j].errors, "Schema validation error")
                = Cardinality(SchemaViolations(DocOf(report[j])))

\* the (platform, manager) entries of a cross_platform object
ManagerEntries(platforms) ==
    {<<p, m>> : p \in DOMAIN platforms, m \in Managers} \cap
        {e \in (DOMAIN platforms) \X Managers : e[2] \in platforms[e[1]].managers}

WellFormedMappings(d) ==
    /\ d.kind = "object"
    /\ "cross_platform" \in d.keys
    /\ d.cross_platform.kind = "object"
    /\ \A p \in DOMAIN d.cross_platform.platforms : d.cross_platform.platforms[p].kind = "object"

ManagerError == "Package should support at least 2 package managers"

DeclaresName(d) == d.kind = "object" /\ "name" \in d.keys
Stem(f) == SubSeq(f.name, 1, Len(f.name) - Len(DotJson))
MismatchError == "Filename doesn't match package name"

\* C5: in a run, a file whose name field differs from its filename stem has
\* exactly one filename-mismatch error in its own list, and a file that
\* declares no name or is called <name>.json has none.
C5_OneMismatchPerMisnamedFile ==
    Exited =>
        \A i \in DOMAIN files :
            IF DeclaresName(files[i].doc) /\ files[i].doc.name # Stem(files[i])
            THEN \E j \in DOMAIN report :
                    report[j].file = i /\ Count(report[j].errors, MismatchError) = 1
            ELSE \A j \in DOMAIN report :
                    report[j].file = i => Count(report[j].errors, MismatchError) = 0

(***************************************************************************)
(* Properties of generate-api.py.                                          *)
(***************************************************************************)
Returned == pc = "return"
Ranked == {i \in DOMAIN packages : HasRank(packages[i])}
RankAt(i) == packages[i].popularity.rank
\* where a stable ascending sort puts record i
Place(i) ==
    1 + Cardinality({j \in Ranked : RankAt(j) < RankAt(i) \/ (RankAt(j) = RankAt(i) /\ j < i)})

\* C6: popular_packages holds one summary for each record with
\* popularity.rank and nothing else, in non-decreasing rank with equal ranks
\* in input order, and total_packages is their number.
C6_PopularSortedStable ==
    Returned =>
        LET doc == endpoints["popular.json"] IN
        /\ Len(doc.popular_packages) = Cardinality(Ranked)
        /\ doc.total_packages = Cardinality(Ranked)
        /\ \A i \in Ranked : doc.popular_packages[Place(i)] = pkg_info(packages[i])
        /\ \A k \in 1..(Len(doc.popular_packages) - 1) :
                doc.popular_packages[k].rank <= doc.popular_packages[k + 1].rank

C6_Witness ==
    /\ Returned
    /\ Len(packages) = 2
    /\ Ranked = {1, 2}
    /\ RankAt(1) = RankAt(2)
    /\ packages[1].name # packages[2].name
    /\ Names(endpoints["popular.json"].popular_packages) = Names(packages)

Lists(pkg, p, m, n) ==
    /\ Has(pkg, "cross_platform")
    /\ Has(pkg.cross_platform, p)
    /\ Has(pkg.cross_platform[p], m)
    /\ \E k \in DOMAIN pkg.cross_platform[p][m] : pkg.cross_platform[p][m][k] = n
Listing(p, m, n) == {i \in DOMAIN packages : Lists(packages[i], p, m, n)}
Last(S) == CHOOSE i \in S : \A j \in S : j <= i

\* C7: each (platform, manager, name) key of reverse_mappings maps to the
\* name of the last record that lists that name under that platform and
\* manager; a key nobody lists is absent; a collision overwrites.
C7_LastWriterWins ==
    Returned =>
        LET rm == endpoints["cross-platform.json"].reverse_mappings IN
        /\ DOMAIN rm \subseteq KnownPlatforms \cup Platforms
        /\ \A p \in DOMAIN rm : DOMAIN rm[p] \subseteq Managers
        /\ \A p \in KnownPlatforms \cup Platforms, m \in Managers, n \in ManagerNames :
                IF Listing(p, m, n) = {}
                THEN ~(Has(rm, p) /\ Has(rm[p], m) /\ Has(rm[p][m], n))
                ELSE /\ Has(rm, p) /\ Has(rm[p], m) /\ Has(rm[p][m], n)
                     /\ rm[p][m][n] = packages[Last(Listing(p, m, n))].name

C7_Witness ==
    /\ Returned
    /\ Len(packages) = 2
    /\ packages[1].name = "a" /\ packages[2].name = "b"
    /\ Listing("linux", "apt", "x") = {1, 2}
    /\ endpoints["cross-platform.json"].reverse_mappings["linux"]["apt"]["x"] = "b"

Rated == {i \in DOMAIN packages : Has(packages[i], "security")}
ScoreAt(i) == IF Has(packages[i].security, "score") THEN packages[i].security.score ELSE 0
RECURSIVE NamesFrom(_, _)
NamesFrom(k, S) ==
    IF k > Len(packages) THEN <<>>
    ELSE (IF k \in S THEN <<packages[k].name>> ELSE <<>>) \o NamesFrom(k + 1, S)
\* the names of the records whose index is in S, in input order
NamesAt(S) == NamesFrom(1, S)
InBucket(b, i) ==
    CASE b = "excellent" -> ScoreAt(i) >= 90
      [] b = "good" -> ScoreAt(i) >= 80 /\ ScoreAt(i) < 90
      [] b = "fair" -> ScoreAt(i) >= 60 /\ ScoreAt(i) < 80
      [] b = "poor" -> ScoreAt(i) < 60

\* C8: every record with security is in exactly one bucket, the one of its
\* score (0 when absent): >= 9.0 excellent, else >= 8.0 good, else >= 6.0
\* fair, else poor; records without security are in none.
C8_OneBucketPerRecord ==
    Returned =>
        LET sc == endpoints["security.json"].security_categories IN
        /\ DOMAIN sc = SecurityCategories
        /\ \A b \in SecurityCategories : sc[b] = NamesAt({i \in Rated : InBucket(b, i)})
        /\ SumSet(SecurityCategories, [b \in SecurityCategories |-> Len(sc[b])])
                = Cardinality(Rated)

C8_Witness ==
    /\ Returned
    /\ Len(packages) = 2
    /\ Rated = {2}
    /\ ScoreAt(2) = 80
    /\ endpoints["security.json"].security_categories["good"] = <<packages[2].name>>

LoadDone == pc \notin {"start", "load"}
Discovered == rglob(disk, PackagesDir)
Parses(e) == e.content.kind = "json"

\* C9: load_all_packages returns one record for each discovered file that
\* opens and parses, none for one that does not, and visits every file.
C9_LoaderSkipsFailures ==
    LoadDone =>
        LET good == SelectSeq(rglob(before, PackagesDir), Parses) IN
        /\ scanned = Len(rglob(before, PackagesDir))
        /\ Len(packages) = Len(good)
        /\ \A i \in DOMAIN good : packages[i] = good[i].content.data

C9_Witness ==
    /\ pc = "popular.json"
    /\ Len(Discovered) = 2
    /\ Discovered[1].content.kind = "corrupt"
    /\ Parses(Discovered[2])
    /\ Len(packages) = 1

Strip(doc) == [k \in DOMAIN doc \ {"last_updated"} |-> doc[k]]
FileAt(d, path) == (CHOOSE i \in DOMAIN d : d[i].path = path)
Output(d, filename) == d[FileAt(d, output_path(filename))].content.data
EndpointNames == {EndpointOrder[i] : i \in DOMAIN EndpointOrder}
Inputs(d) == SelectSeq(d, LAMBDA e : ~IsPrefix(ApiDir, e.path.dir))

\* C10: a run on the directory a run has left writes the same five
\* documents, last_updated apart, and no run changes a package file.
C10_Idempotent ==
    pc = "done" =>
        /\ Inputs(disk) = Inputs(before)
        /\ runs >= 2 =>
            \A f \in EndpointNames : Strip(Output(disk, f)) = Strip(Output(before, f))

C10_Witness ==
    /\ pc = "done"
    /\ runs = 2
    /\ Len(packages) >= 1
    /\ Output(disk, "all.json").last_updated # Output(before, "all.json").last_updated
    /\ Strip(Output(disk, "all.json")) = Strip(Output(before, "all.json"))

====
